---- MODULE Spec2Model ----
(***************************************************************************)
(* Team-membership resource of the litellm Terraform provider              *)
(* (provider/resource_team_membership.go): the role validator and the four *)
(* CRUD handlers, each modelled as one atomic step that takes the declared *)
(* state d, the outcome of request construction and the outcome of the     *)
(* HTTP round trip, and yields the handler's result.                       *)
(*                                                                         *)
(* A Go panic (nil dereference, failed type assertion) is an outcome of a  *)
(* handler: outcome = "panicked".  A returning handler has outcome =       *)
(* "returned" and carries the diagnostics it returned.                     *)
(***************************************************************************)
EXTENDS Integers, Sequences, FiniteSets, TLC

VARIABLES d, result, nOps, nSent, validation

vars == <<d, result, nOps, nSent, validation>>

----------------------------------------------------------------------------
(* Bounds of the model *)

\* number of handler invocations explored
MaxOps == 2
\* longest members_with_roles array in a /team/info response
MaxMembers == 2

----------------------------------------------------------------------------
(* Program constants *)

\* http.StatusOK
StatusOK == 200

\* litellm.PROXY_ADMIN, litellm.PROXY_ADMIN_VIEWER, litellm.ROLE_LIST
PROXY_ADMIN == "proxy_admin"
PROXY_ADMIN_VIEWER == "proxy_admin_viewer"
ROLE_LIST == <<"proxy_admin", "proxy_admin_viewer", "admin", "member", "viewer">>

\* The keys of SchemaTeamMembership; max_budget_in_team is commented out.
SchemaTeamMembership == {"team_id", "user_id", "role"}

\* Keys the handlers name that SchemaTeamMembership does not declare:
\* max_budget_in_team (getTeamMembershipData) and user_email (Read).
UndeclaredKeys == {"max_budget_in_team", "user_email"}

----------------------------------------------------------------------------
(* Input domains *)

TeamIds == {"t1"}
UserIds == {"u1", "u2", "u3"}
\* a negative, the zero and a positive budget
Budgets == {-1, 0, 12}
StatusCodes == {200, 403}
\* candidate strings handed to the role validator
Candidates == {"proxy_admin", "proxy_admin_viewer", "admin", "member", "viewer",
               "owner", ""}
\* entries {user_id, role, user_email} of a members_with_roles array
Entries ==
    { [user_id |-> "u1", role |-> "member", user_email |-> "a@x.com"],
      [user_id |-> "u2", role |-> "admin", user_email |-> ""],
      [user_id |-> "u2", role |-> "member", user_email |-> "b@x.com"] }

SeqsUpTo(S, n) == UNION {[1..k -> S] : k \in 0..n}

Range(s) == {s[i] : i \in DOMAIN s}

----------------------------------------------------------------------------
(* schema.ResourceData: the schema it was built from and a value per key *)

SchemaType(key) == IF key = "max_budget_in_team" THEN "float64" ELSE "string"

KeyValues(key) ==
    CASE key = "team_id" -> TeamIds
      [] key = "user_id" -> UserIds
      [] key = "role" -> Candidates
      [] key = "user_email" -> {""}
      [] key = "max_budget_in_team" -> Budgets

\* A ResourceData is built from a schema: the one resourceTeamMembership
\* registers, or one that also declares keys the handlers read and write.
Schemas == {SchemaTeamMembership \cup X : X \in SUBSET UndeclaredKeys}

WithKey(F, S, key) ==
    IF key \in S
    THEN {f @@ (key :> x) : f \in F, x \in KeyValues(key)}
    ELSE F

ValsOf(S) ==
    LET required == {[team_id |-> t, user_id |-> u, role |-> r] :
                       t \in TeamIds, u \in UserIds, r \in Candidates}
    IN WithKey(WithKey(required, S, "max_budget_in_team"), S, "user_email")

ResourceDatas ==
    UNION {{[schema |-> S, vals |-> v] : v \in ValsOf(S)} : S \in Schemas}

NilValue == [type |-> "nil"]

\* d.Get(key): the value of a declared key, nil for a key not in the schema
Get(rd, key) ==
    IF key \in rd.schema
    THEN [type |-> SchemaType(key), v |-> rd.vals[key]]
    ELSE NilValue

\* d.Set(key, value): writes a declared key; for a key not in the schema it
\* returns an error (which the handlers drop) and writes nothing
Set(rd, key, value) ==
    IF key \in rd.schema
    THEN [rd EXCEPT !.vals = [rd.vals EXCEPT ![key] = value]]
    ELSE rd

\* getTeamMembershipData: each d.Get(..).(T) panics unless the value is a T
getTeamMembershipData(rd) ==
    LET userId == Get(rd, "user_id")
        role == Get(rd, "role")
        teamId == Get(rd, "team_id")
        maxBudgetInTeam == Get(rd, "max_budget_in_team")
    IN IF /\ userId.type = "string"
          /\ role.type = "string"
          /\ teamId.type = "string"
          /\ maxBudgetInTeam.type = "float64"
       THEN [panic |-> FALSE,
             UserId |-> userId.v,
             Role |-> role.v,
             TeamId |-> teamId.v,
             MaxBudgetInTeam |-> maxBudgetInTeam.v]
       ELSE [panic |-> TRUE]

----------------------------------------------------------------------------
(* Library calls the handlers make *)

NoBody == <<>>

\* diag.FromErr(err): one error diagnostic made from err
diag_FromErr(err) == <<[severity |-> "error", summary |-> err, code |-> 0]>>

\* diag.Errorf("... has failed with status code %d", resp.StatusCode)
diag_Errorf(statusCode) ==
    <<[severity |-> "error", summary |-> "status code", code |-> statusCode]>>

\* An expression statement: the value is computed and dropped, the
\* handler's variables keep what they held.
Discard(value, kept) == kept

\* client.NewRequest(method, url, body): the request, or nil and an error
client_NewRequest(method, path, query, body, ok) ==
    IF ok
    THEN [nil |-> FALSE, err |-> FALSE, method |-> method, path |-> path,
          query |-> query, body |-> body]
    ELSE [nil |-> TRUE, err |-> TRUE]

\* json.NewDecoder(resp.Body).Decode(&respJsonBody): the decoded object; on
\* malformed input an error, respJsonBody stays the nil map
json_Decode(body) ==
    IF body.valid
    THEN [err |-> FALSE, hasKey |-> body.hasKey, members |-> body.members]
    ELSE [err |-> TRUE, hasKey |-> FALSE, members |-> <<>>]

\* json.Marshal(respJsonBody["members_with_roles"]): "null" for a missing
\* key, the array otherwise
json_MarshalMembers(obj) ==
    IF obj.hasKey
    THEN [null |-> FALSE, array |-> obj.members]
    ELSE [null |-> TRUE, array |-> <<>>]

\* litellm.MemberWithRole decoded from one array entry
MemberWithRole(entry) ==
    [UserId |-> entry.user_id, Role |-> entry.role, UserEmail |-> entry.user_email]

\* json.Unmarshal(data, v): v must be a non-nil pointer, otherwise the call
\* returns an InvalidUnmarshalError and stores nothing
json_Unmarshal(data, isPointer, target) ==
    IF ~isPointer
    THEN [err |-> TRUE, val |-> target]
    ELSE IF data.null
    THEN [err |-> FALSE, val |-> target]
    ELSE [err |-> FALSE,
          val |-> [i \in DOMAIN data.array |-> MemberWithRole(data.array[i])]]

----------------------------------------------------------------------------
(* What one handler invocation did *)

NoResult ==
    [op |-> "none", outcome |-> "none", panic |-> "", diags |-> <<>>,
     sent |-> <<>>, acquired |-> FALSE, closed |-> 0, nilClose |-> FALSE,
     status |-> 0, members |-> <<>>, failures |-> {},
     pre |-> [schema |-> {}, vals |-> <<>>],
     post |-> [schema |-> {}, vals |-> <<>>]]

\* the handler panicked: nothing is returned, the declared state is as it was
Panicked(op, rd, why, sent, failures) ==
    [NoResult EXCEPT !.op = op, !.outcome = "panicked", !.panic = why,
                     !.sent = sent, !.failures = failures,
                     !.nilClose = (why = "nil response"),
                     !.pre = rd, !.post = rd]

\* the handler returned diags; the deferred resp.Body.Close() ran once
Returned(op, rd, post, sent, net, members, failures, diags) ==
    [NoResult EXCEPT !.op = op, !.outcome = "returned", !.diags = diags,
                     !.sent = sent, !.acquired = TRUE, !.closed = 1,
                     !.status = net.status, !.members = members,
                     !.failures = failures, !.pre = rd, !.post = post]

----------------------------------------------------------------------------
(* The handlers *)

\* payload plus "max_budget_in_team" when the budget is > 0.0
WithBudget(jsonPayload, data) ==
    IF data.MaxBudgetInTeam > 0
    THEN jsonPayload @@ ("max_budget_in_team" :> data.MaxBudgetInTeam)
    ELSE jsonPayload

\* if resp.StatusCode != http.StatusOK { diag.Errorf(...) }; return diags
StatusCheck(net, diags) ==
    IF net.status # StatusOK
    THEN Discard(diag_Errorf(net.status), diags)
    ELSE diags

\* A mutating handler from json.Marshal on: the errors of Marshal and
\* NewRequest are dropped, http.DefaultClient.Do(nil) dereferences nil,
\* a failed Do leaves resp nil and "defer resp.Body.Close()" dereferences it.
PostAndCheck(op, rd, path, jsonPayload, newReqOk, net) ==
    LET diags == <<>>
        req == client_NewRequest("POST", path, <<>>, jsonPayload, newReqOk)
        diags1 == IF req.err THEN Discard(diag_FromErr("request"), diags) ELSE diags
        diags2 == IF net.kind = "error"
                  THEN Discard(diag_FromErr("transport"), diags1)
                  ELSE diags1
    IN IF req.nil
       THEN Panicked(op, rd, "nil request", <<>>, {"construct"})
       ELSE IF net.kind = "error"
       THEN Panicked(op, rd, "nil response", <<req>>, {"transport"})
       ELSE Returned(op, rd, rd, <<req>>, net, <<>>, {}, StatusCheck(net, diags2))

resourceTeamMembershipCreate(rd, newReqOk, net) ==
    LET teamMembershipData == getTeamMembershipData(rd)
        jsonPayload ==
            WithBudget([member |-> [role |-> teamMembershipData.Role,
                                    user_id |-> teamMembershipData.UserId],
                        team_id |-> teamMembershipData.TeamId],
                       teamMembershipData)
    IN IF teamMembershipData.panic
       THEN Panicked("Create", rd, "type assertion", <<>>, {})
       ELSE PostAndCheck("Create", rd, "/team/member_add", jsonPayload, newReqOk, net)

resourceTeamMembershipUpdate(rd, newReqOk, net) ==
    LET teamMembershipData == getTeamMembershipData(rd)
        jsonPayload ==
            WithBudget([user_id |-> teamMembershipData.UserId,
                        role |-> teamMembershipData.Role,
                        team_id |-> teamMembershipData.TeamId],
                       teamMembershipData)
    IN IF teamMembershipData.panic
       THEN Panicked("Update", rd, "type assertion", <<>>, {})
       ELSE PostAndCheck("Update", rd, "/team/member_update", jsonPayload, newReqOk, net)

resourceTeamMembershipDelete(rd, newReqOk, net) ==
    LET teamMembershipData == getTeamMembershipData(rd)
        jsonPayload == [user_id |-> teamMembershipData.UserId,
                        team_id |-> teamMembershipData.TeamId]
    IN IF teamMembershipData.panic
       THEN Panicked("Delete", rd, "type assertion", <<>>, {})
       ELSE PostAndCheck("Delete", rd, "/team/member_delete", jsonPayload, newReqOk, net)

\* ReadScan with a miss that clears the declared role
ReadScanClearsOnMiss(rd, membersWithRoles, userId, diags) ==
    LET matches == {i \in DOMAIN membersWithRoles :
                      membersWithRoles[i].UserId = userId}
    IN IF matches # {}
       THEN LET first == CHOOSE i \in matches : \A j \in matches : i <= j
                teamMembership == membersWithRoles[first]
            IN [d |-> Set(Set(rd, "role", teamMembership.Role),
                          "user_email", teamMembership.UserEmail),
                diags |-> <<>>]
       ELSE [d |-> Set(rd, "role", ""), diags |-> diags]

\* The scan of membersWithRoles: the first entry of the declared user sets
\* role and user_email and returns nil; otherwise diags is returned.
ReadScan(rd, membersWithRoles, userId, diags) ==
    LET matches == {i \in DOMAIN membersWithRoles :
                      membersWithRoles[i].UserId = userId}
    IN IF matches # {}
       THEN LET first == CHOOSE i \in matches : \A j \in matches : i <= j
                teamMembership == membersWithRoles[first]
            IN [d |-> Set(Set(rd, "role", teamMembership.Role),
                          "user_email", teamMembership.UserEmail),
                diags |-> <<>>]
       ELSE [d |-> rd, diags |-> diags]

resourceTeamMembershipRead(rd, newReqOk, net) ==
    LET diags == <<>>
        teamMembershipData == getTeamMembershipData(rd)
        req == client_NewRequest("GET", "/team/info",
                                 <<"team_id", teamMembershipData.TeamId>>,
                                 NoBody, newReqOk)
        decoded == json_Decode(net.body)
        jsonTeamMembership == json_MarshalMembers(decoded)
        \* var membersWithRoles []litellm.MemberWithRole, passed by value
        unmarshalled == json_Unmarshal(jsonTeamMembership, FALSE, <<>>)
        membersWithRoles == unmarshalled.val
        failures == (IF decoded.err THEN {"decode"} ELSE {})
                      \cup (IF unmarshalled.err THEN {"unmarshal"} ELSE {})
        diags1 == IF req.err THEN Discard(diag_FromErr("request"), diags) ELSE diags
        diags2 == IF net.kind = "error"
                  THEN Discard(diag_FromErr("transport"), diags1)
                  ELSE diags1
        diags3 == IF decoded.err THEN Discard(diag_FromErr("decode"), diags2) ELSE diags2
        diags4 == IF unmarshalled.err
                  THEN Discard(diag_FromErr("unmarshal"), diags3)
                  ELSE diags3
        scanned == ReadScan(rd, membersWithRoles, teamMembershipData.UserId, diags4)
    IN IF teamMembershipData.panic
       THEN Panicked("Read", rd, "type assertion", <<>>, {})
       ELSE IF req.nil
       THEN Panicked("Read", rd, "nil request", <<>>, {"construct"})
       ELSE IF net.kind = "error"
       THEN Panicked("Read", rd, "nil response", <<req>>, {"transport"})
       ELSE Returned("Read", rd, scanned.d, <<req>>, net,
                     IF decoded.hasKey THEN decoded.members ELSE <<>>,
                     failures, scanned.diags)

----------------------------------------------------------------------------
(* The role validator *)

\* litellm.ValidateRole(value): the role and whether it is in ROLE_LIST
ValidateRole(value) ==
    IF value \in Range(ROLE_LIST)
    THEN [role |-> value, isValidated |-> TRUE]
    ELSE [role |-> "", isValidated |-> FALSE]

\* ValidateFunc with the membership test inverted
RoleValidateFuncInverted(value) ==
    LET validated == ValidateRole(value)
        errs1 == IF validated.isValidated
                 THEN <<[msg |-> "Provided role should be in this list",
                         list |-> ROLE_LIST]>>
                 ELSE <<>>
        errs2 == IF validated.role = PROXY_ADMIN \/ validated.role = PROXY_ADMIN_VIEWER
                 THEN Append(errs1, [msg |-> "cannot be set to associate a team with an user",
                                     list |-> <<>>])
                 ELSE errs1
    IN [value |-> value, warns |-> <<>>, errs |-> errs2]

\* ValidateFunc that excludes PROXY_ADMIN only
RoleValidateFuncAdminOnly(value) ==
    LET validated == ValidateRole(value)
        errs1 == IF ~validated.isValidated
                 THEN <<[msg |-> "Provided role should be in this list",
                         list |-> ROLE_LIST]>>
                 ELSE <<>>
        errs2 == IF validated.role = PROXY_ADMIN
                 THEN Append(errs1, [msg |-> "cannot be set to associate a team with an user",
                                     list |-> <<>>])
                 ELSE errs1
    IN [value |-> value, warns |-> <<>>, errs |-> errs2]

\* SchemaTeamMembership["role"].ValidateFunc
RoleValidateFunc(value) ==
    LET validated == ValidateRole(value)
        errs1 == IF ~validated.isValidated
                 THEN <<[msg |-> "Provided role should be in this list",
                         list |-> ROLE_LIST]>>
                 ELSE <<>>
        errs2 == IF validated.role = PROXY_ADMIN \/ validated.role = PROXY_ADMIN_VIEWER
                 THEN Append(errs1, [msg |-> "cannot be set to associate a team with an user",
                                     list |-> <<>>])
                 ELSE errs1
    IN [value |-> value, warns |-> <<>>, errs |-> errs2]

----------------------------------------------------------------------------
(* The environment of one invocation *)

InvalidBody == [valid |-> FALSE, hasKey |-> FALSE, members |-> <<>>]
EmptyObject == [valid |-> TRUE, hasKey |-> FALSE, members |-> <<>>]

\* bodies of a /team/info response
TeamInfoBodies ==
    {InvalidBody, EmptyObject}
      \cup {[valid |-> TRUE, hasKey |-> TRUE, members |-> m] :
              m \in SeqsUpTo(Entries, MaxMembers)}

TransportError == [kind |-> "error", status |-> 0, body |-> InvalidBody]

Responses(bodies) ==
    {[kind |-> "response", status |-> s, body |-> b] : s \in StatusCodes, b \in bodies}

\* request construction fails, or it succeeds and the round trip fails or
\* yields a response
Environments(bodies) ==
    {[newReqOk |-> FALSE, net |-> TransportError]}
      \cup {[newReqOk |-> TRUE, net |-> n] : n \in {TransportError} \cup Responses(bodies)}

----------------------------------------------------------------------------
(* The state machine *)

Accepted(rd) == RoleValidateFunc(rd.vals.role).errs = <<>>

Init ==
    /\ d \in {rd \in ResourceDatas : Accepted(rd)}
    /\ validation = RoleValidateFunc(d.vals.role)
    /\ result = NoResult
    /\ nOps = 0
    /\ nSent = 0

\* The host validates the role of a configuration; a configuration without
\* errors becomes the declared state of a fresh run.
Validate ==
    \E value \in Candidates :
        /\ validation' = RoleValidateFunc(value)
        /\ IF validation'.errs = <<>>
           THEN d' \in {rd \in ResourceDatas : rd.vals.role = value}
           ELSE d' = d
        /\ result' = NoResult
        /\ nOps' = 0
        /\ nSent' = 0

\* the host runs handlers on the declared state of an accepted configuration
Invocable ==
    /\ validation.errs = <<>>
    /\ nOps < MaxOps

Create ==
    \E env \in Environments({EmptyObject}) :
        LET res == resourceTeamMembershipCreate(d, env.newReqOk, env.net)
        IN /\ Invocable
           /\ result' = res
           /\ d' = res.post
           /\ nOps' = nOps + 1
           /\ nSent' = nSent + Len(res.sent)
           /\ UNCHANGED validation

Read ==
    \E env \in Environments(TeamInfoBodies) :
        LET res == resourceTeamMembershipRead(d, env.newReqOk, env.net)
        IN /\ Invocable
           /\ result' = res
           /\ d' = res.post
           /\ nOps' = nOps + 1
           /\ nSent' = nSent + Len(res.sent)
           /\ UNCHANGED validation

Update ==
    \E env \in Environments({EmptyObject}) :
        LET res == resourceTeamMembershipUpdate(d, env.newReqOk, env.net)
        IN /\ Invocable
           /\ result' = res
           /\ d' = res.post
           /\ nOps' = nOps + 1
           /\ nSent' = nSent + Len(res.sent)
           /\ UNCHANGED validation

Delete ==
    \E env \in Environments({EmptyObject}) :
        LET res == resourceTeamMembershipDelete(d, env.newReqOk, env.net)
        IN /\ Invocable
           /\ result' = res
           /\ d' = res.post
           /\ nOps' = nOps + 1
           /\ nSent' = nSent + Len(res.sent)
           /\ UNCHANGED validation

Next == Validate \/ Create \/ Read \/ Update \/ Delete

Spec == Init /\ [][Next]_vars

----------------------------------------------------------------------------
(* Properties *)

Mutating == {"Create", "Update", "Delete"}

Endpoint(op) ==
    CASE op = "Create" -> "/team/member_add"
      [] op = "Read" -> "/team/info"
      [] op = "Update" -> "/team/member_update"
      [] op = "Delete" -> "/team/member_delete"

\* indexes of the response's members_with_roles entries of the declared user
Matches(res) ==
    {i \in DOMAIN res.members : res.members[i].user_id = res.pre.vals.user_id}

FirstMatch(res) == CHOOSE i \in Matches(res) : \A j \in Matches(res) : i <= j

\* the declared budget is present and positive
BudgetDeclaredPositive(rd) ==
    /\ "max_budget_in_team" \in rd.schema
    /\ rd.vals["max_budget_in_team"] > 0

C5_BudgetKeyAndSend ==
    (result.op \in {"Create", "Update"} /\ result.panic # "nil request")
      => /\ Len(result.sent) = 1
         /\ ("max_budget_in_team" \in DOMAIN result.sent[1].body)
              <=> BudgetDeclaredPositive(result.pre)
         /\ BudgetDeclaredPositive(result.pre)
              => result.sent[1].body["max_budget_in_team"]
                   = result.pre.vals["max_budget_in_team"]

\* C6: every invocation issues exactly one request, to its own endpoint,
\* and returns; over a run there are as many requests as invocations.
C6_ExactlyOneRequest ==
    /\ nSent = nOps
    /\ result.op # "none"
         => /\ result.outcome = "returned"
            /\ Len(result.sent) = 1
            /\ result.sent[1].path = Endpoint(result.op)

C8_UnknownRoleListsRoles ==
    validation.value \notin Range(ROLE_LIST)
      => \E i \in DOMAIN validation.errs :
            /\ validation.errs[i].msg = "Provided role should be in this list"
            /\ validation.errs[i].list = ROLE_LIST

C8_Witness ==
    /\ validation.value = "owner"
    /\ Len(validation.errs) = 1

\* C9: for proxy_admin and proxy_admin_viewer the validator returns the
\* team-scope exclusion error, and the declared role is never one of them.
C9_ReservedRoleRejected ==
    /\ validation.value \in {"proxy_admin", "proxy_admin_viewer"}
         => \E i \in DOMAIN validation.errs :
               validation.errs[i].msg = "cannot be set to associate a team with an user"
    /\ d.vals.role \notin {"proxy_admin", "proxy_admin_viewer"}

C9_Witness ==
    /\ validation.value = "proxy_admin_viewer"
    /\ validation.errs # <<>>

====
